---- MODULE Spec2Model ----
(***************************************************************************)
(* Model of plugins/modules/ganeti_instance.py: one run of run_module      *)
(* against a Ganeti RAPI controller.  The controller is the environment:   *)
(* every query() gets a nondeterministic response (or raises).  Time is    *)
(* an integer clock advanced by query durations and by time.sleep(2).      *)
(* Messages are kept as a format string plus its arguments, as str.format  *)
(* receives them.                                                          *)
(***************************************************************************)
EXTENDS Integers, Sequences, FiniteSets, TLC

\* ---------------------------------------------------------------- bounds
\* longest duration of one query (submission or job poll), in seconds
MaxPollDur == 1
\* job ids the controller hands out are 1..MaxJobId
MaxJobId == 1
\* values of job_timeout tried
JobTimeouts == {3, 10}

\* ------------------------------------------------------------- constants
\* time.sleep(2) between two polls
SleepInterval == 2
\* the only status code treated as success
HTTP_OK == 200
\* the status code run_module reads as "no instance found"
HTTP_NOT_FOUND == 404
\* failure status codes other than not-found that the controller answers with
FailureCodes == {500}

\* module.params['name']
Name == "vmname"
\* state_choices
state_choices == {"present", "absent", "restarted", "started", "stopped"}
\* instance statuses of the controller; NODE_down stands for any status
\* that is none of running, ADMIN_down, ERROR_down
InstanceStatuses == {"running", "ADMIN_down", "ERROR_down", "NODE_down"}
\* job statuses the controller reports
NonTerminalJobStatuses == {"queued", "running"}
TerminalJobStatuses == {"canceled", "error", "success"}

DISK_PARAMETERS == {"size", "mode", "name", "provider"}
NIC_PARAMETERS == {"bridge", "name", "ip", "vlan", "mac", "link", "mode", "network"}
NIC_MODES == {"routed", "bridged", "openvswitch"}

\* --------------------------------------------------------------- helpers
\* a message: the format string and the arguments handed to str.format
Msg(fmt, args) == [fmt |-> fmt, args |-> args]
NoMsg == Msg("", <<>>)
\* the text of argument x appears in message m
Contains(m, x) == \E i \in DOMAIN m.args : m.args[i] = x

\* a python dict is an ordered sequence of <<key, value>> pairs
Keys(d) == {d[i][1] : i \in DOMAIN d}
Get(d, k) == d[CHOOSE i \in DOMAIN d : d[i][1] = k][2]

\* scalar and complex values of an osparams entry
Scalar(v) == [kind |-> "scalar", v |-> v]
Complex(kind) == [kind |-> kind, v |-> ""]

\* the least element of a non-empty set of positions: the first one a loop meets
First(S) == CHOOSE i \in S : \A j \in S : i <= j

\* ------------------------------------------------- instance_create: payload
\* outcome of a translation step: either the translated list or the
\* message handed to fail_json
Accept(out) == [ok |-> TRUE, out |-> out, msg |-> NoMsg]
Reject(msg) == [ok |-> FALSE, out |-> <<>>, msg |-> msg]

\* the keys of an ext disk are checked like those of any other disk
RECURSIVE TranslateDisksNoExt(_, _, _, _)
TranslateDisksNoExt(in, i, disks, disk_i) ==
    IF i > Len(in) THEN Accept(disks)
    ELSE LET disk == in[i]
             bad == {k \in DOMAIN disk : disk[k][1] \notin DISK_PARAMETERS}
         IN  IF "size" \notin Keys(disk)
             THEN Reject(Msg("No \"size\" given for disk #{0}", <<ToString(disk_i)>>))
             ELSE IF bad # {}
             THEN Reject(Msg("Invalid disk parameter for disk #{0}: {1} is not a valid key",
                             <<ToString(disk_i), disk[First(bad)][1]>>))
             ELSE TranslateDisksNoExt(in, i + 1, Append(disks, disk), disk_i + 1)

\* the disks loop; disks is the list built so far, disk_i its counter
RECURSIVE TranslateDisks(_, _, _, _)
TranslateDisks(in, i, disks, disk_i) ==
    IF i > Len(in) THEN Accept(disks)
    ELSE LET disk == in[i]
             bad == {k \in DOMAIN disk : disk[k][1] \notin DISK_PARAMETERS}
         IN  IF "size" \notin Keys(disk)
             THEN Reject(Msg("No \"size\" given for disk #{0}", <<ToString(disk_i)>>))
             ELSE IF "provider" \in Keys(disk) /\ Get(disk, "provider") = "ext"
             THEN TranslateDisks(in, i + 1, Append(disks, disk), disk_i + 1)
             ELSE IF bad # {}
             THEN Reject(Msg("Invalid disk parameter for disk #{0}: {1} is not a valid key",
                             <<ToString(disk_i), disk[First(bad)][1]>>))
             ELSE IF Len(disk) # 0
             THEN TranslateDisks(in, i + 1, Append(disks, disk), disk_i + 1)
             ELSE TranslateDisks(in, i + 1, disks, disk_i)

\* the nics loop; nics is the list built so far, nic_i its counter
RECURSIVE TranslateNics(_, _, _, _)
TranslateNics(in, i, nics, nic_i) ==
    IF i > Len(in) THEN Accept(nics)
    ELSE LET nic == in[i]
             bad == {k \in DOMAIN nic :
                        \/ nic[k][1] \notin NIC_PARAMETERS
                        \/ nic[k][1] = "mode" /\ nic[k][2] \notin NIC_MODES}
         IN  IF bad # {}
             THEN LET key == nic[First(bad)][1]
                  IN  IF key \notin NIC_PARAMETERS
                      THEN Reject(Msg("Invalid nic parameter for nic #{0}: {1} is not a valid key",
                                      <<ToString(nic_i), key>>))
                      ELSE Reject(Msg("Invalid mode {1} for nic {0}",
                                      <<ToString(nic_i), nic[First(bad)][2]>>))
             ELSE IF Len(nic) # 0
             THEN TranslateNics(in, i + 1, Append(nics, nic), nic_i + 1)
             ELSE TranslateNics(in, i + 1, nics, nic_i)

\* complex values are passed on
TranslateOsparamsUnchecked(in) == Accept(in)
\* the osparams loop
TranslateOsparams(in) ==
    LET bad == {k \in DOMAIN in : in[k][2].kind \in {"dict", "list"}}
    IN  IF Len(in) > 0 /\ bad # {}
        THEN Reject(Msg("Got complex type for osparams key %s", <<in[First(bad)][1]>>))
        ELSE Accept(in)

\* the fixed keys of the create request body
BaseKeys == {"__version__", "beparams", "disk_template", "hypervisor",
             "instance_name", "os_type", "pnode", "snode", "mode"}

\* instance_create up to the POST: the request body, or the fail_json message
CreatePayload(p) ==
    LET d == TranslateDisks(p.disks, 1, <<>>, 0)
        n == TranslateNics(p.nics, 1, <<>>, 0)
        o == TranslateOsparams(p.osparams)
        body(ds, ns, os) ==
            [keys |-> BaseKeys \cup (IF Len(ds) > 0 THEN {"disks"} ELSE {})
                               \cup (IF Len(ns) > 0 THEN {"nics"} ELSE {})
                               \cup (IF Len(os) > 0 THEN {"osparams"} ELSE {}),
             instance_name |-> p.name, disks |-> ds, nics |-> ns, osparams |-> os]
    IN  IF ~d.ok THEN [ok |-> FALSE, msg |-> d.msg, data |-> body(<<>>, <<>>, <<>>)]
        ELSE IF ~n.ok THEN [ok |-> FALSE, msg |-> n.msg, data |-> body(<<>>, <<>>, <<>>)]
        ELSE IF ~o.ok THEN [ok |-> FALSE, msg |-> o.msg, data |-> body(<<>>, <<>>, <<>>)]
        ELSE [ok |-> TRUE, msg |-> NoMsg, data |-> body(d.out, n.out, o.out)]
NoPayload == [keys |-> {}, instance_name |-> "", disks |-> <<>>, nics |-> <<>>, osparams |-> <<>>]

\* ------------------------------------------------------ query and requests
\* query(): the request sent to the controller
query(method, resource) == [method |-> method, resource |-> resource]
\* the instance lookup, sent first and again before the result is reported
LookupRequest == query("GET", <<"/instances/", Name>>)
\* the request each instance_* function sends
OpRequest(op) ==
    CASE op = "instance_create"  -> query("POST", <<"/instances">>)
      [] op = "instance_start"   -> query("PUT", <<"/instances/", Name, "/startup">>)
      [] op = "instance_stop"    -> query("PUT", <<"/instances/", Name, "/shutdown">>)
      [] op = "instance_destroy" -> query("DELETE", <<"/instances/", Name>>)
      [] op = "instance_restart" -> query("POST", <<"/instances/", Name, "/reboot">>)
JobRequest(job_id) == query("GET", <<"/jobs/", ToString(job_id)>>)
Ops == {"instance_create", "instance_start", "instance_stop",
        "instance_destroy", "instance_restart"}

\* instance_stop answers with the text of instance_destroy
OpCompleteMsgCopied(op) ==
    CASE op = "instance_create"  -> Msg("Instance {0} created", <<Name>>)
      [] op = "instance_start"   -> Msg("Startup complete", <<>>)
      [] OTHER                   -> Msg("Destruction complete", <<>>)
\* what instance_* returns after a successful wait
OpCompleteMsg(op) ==
    CASE op = "instance_create"  -> Msg("Instance {0} created", <<Name>>)
      [] op = "instance_start"   -> Msg("Startup complete", <<>>)
      [] op = "instance_stop"    -> Msg("Shutdown complete", <<>>)
      [] op = "instance_destroy" -> Msg("Destruction complete", <<>>)
      [] op = "instance_restart" -> Msg("Destruction complete", <<>>)
\* what instance_* returns when it does not wait
OpSentMsg(op) ==
    CASE op = "instance_create"  -> Msg("Create job added", <<>>)
      [] op = "instance_start"   -> Msg("Startup signal sent", <<>>)
      [] op = "instance_stop"    -> Msg("Shutdown signal sent", <<>>)
      [] op = "instance_destroy" -> Msg("Destruction signal sent", <<>>)
      [] op = "instance_restart" -> Msg("Shutdown signal sent", <<>>)
\* what instance_* hands to fail_json when the wait fails: the waiter's
\* message, behind a prefix for all but instance_create
OpWaitFailedMsg(op, message) ==
    CASE op = "instance_create"  -> message
      [] op = "instance_start"   -> Msg("Stop action failed: {0}", <<message.fmt>> \o message.args)
      [] op = "instance_stop"    -> Msg("Stop action failed: {0}", <<message.fmt>> \o message.args)
      [] op = "instance_destroy" -> Msg("Restart action failed: {0}", <<message.fmt>> \o message.args)
      [] op = "instance_restart" -> Msg("Destroy action failed: {0}", <<message.fmt>> \o message.args)
\* what instance_* hands to fail_json when the submission is not answered 200
ApiFailedMsg(code) == Msg("API call failed with code {0}: {1}", <<ToString(code), "text">>)

\* ------------------------------------------------- run_module: the decision
\* The branch of run_module's if/elif chain taken for the desired state and
\* the first lookup's response (status code; body: an instance status,
\* "nostatus" for JSON without a status key, "nojson" for a body that is
\* not JSON).

\* status 404 with restarted, started or stopped: no error, nothing done
NotFoundBranchSilent(state) ==
    IF state = "present" THEN "create"
    ELSE "not_found"
\* the branch for status 404
NotFoundBranch(state) ==
    IF state = "present" THEN "create"
    ELSE IF state \in {"restarted", "started", "stopped"} THEN "not_present"
    ELSE "not_found"

\* only ADMIN_down counts as stopped
StoppedBranchAdminOnly(status) ==
    IF status # "ADMIN_down" THEN "stop"
    ELSE "already_stopped"
\* state == 'stopped' on a found instance
StoppedBranch(status) ==
    IF status \notin {"ADMIN_down", "ERROR_down"} THEN "stop"
    ELSE "already_stopped"

\* the test on running dropped
StartedBranchUnconditional(status) == "start"
\* state == 'started' on a found instance
StartedBranch(status) ==
    IF status # "running" THEN "start"
    ELSE "already_started"

\* the test on running inverted
RestartedBranchInverted(status) ==
    IF status # "running" THEN "restart"
    ELSE "restart_start"
\* state == 'restarted' on a found instance
RestartedBranch(status) ==
    IF status = "running" THEN "restart"
    ELSE "restart_start"

\* The second "elif state == 'stopped'" of the chain is never reached: the
\* first one takes every run with that state.
Decision(state, code, body) ==
    IF code = HTTP_NOT_FOUND THEN NotFoundBranch(state)
    ELSE IF body = "nojson" THEN "ValueError"
    ELSE IF state = "present" THEN "present"
    ELSE IF body = "nostatus" /\ state \in {"stopped", "started", "restarted"} THEN "KeyError"
    ELSE IF state = "stopped" THEN StoppedBranch(body)
    ELSE IF state = "started" THEN StartedBranch(body)
    ELSE IF state = "restarted" THEN RestartedBranch(body)
    ELSE IF state = "absent" THEN "destroy"
    ELSE "none"

\* the instance_* function a branch calls, "none" when it calls none
BranchOp(branch) ==
    CASE branch = "create"        -> "instance_create"
      [] branch = "stop"          -> "instance_stop"
      [] branch = "start"         -> "instance_start"
      [] branch = "restart"       -> "instance_restart"
      [] branch = "restart_start" -> "instance_start"
      [] branch = "destroy"       -> "instance_destroy"
      [] OTHER                    -> "none"

\* the not-found branch leaves message empty
BranchMsgEmptyNotFound(branch, body) ==
    CASE branch = "present"         -> Msg("Instance present", <<>>)
      [] branch = "already_stopped" -> Msg("Instance already stopped, status {0}", <<body>>)
      [] OTHER                      -> NoMsg
\* the message a branch that calls nothing leaves in message
BranchMsg(branch, body) ==
    CASE branch = "not_found"       -> Msg("No instance found", <<>>)
      [] branch = "present"         -> Msg("Instance present", <<>>)
      [] branch = "already_stopped" -> Msg("Instance already stopped, status {0}", <<body>>)
      [] OTHER                      -> NoMsg

\* the value of changed: a bool, or the tuple instance_start returned when
\* the restarted branch assigns it whole
Bool(b) == [kind |-> "bool", flag |-> b, text |-> NoMsg]
Tuple(b, m) == [kind |-> "tuple", flag |-> b, text |-> m]
\* changed, message after a branch's call returned (True, m)
AssignChanged(branch, m) == IF branch = "restart_start" THEN Tuple(TRUE, m) ELSE Bool(TRUE)
AssignMessage(branch, m) == IF branch = "restart_start" THEN NoMsg ELSE m

\* ------------------------------------------------------------ wait_for_job
\* the outcome of one turn of the loop
Return(success, message) == [kind |-> "return", success |-> success, message |-> message]
Raise(exception) == [kind |-> "raise", success |-> FALSE, message |-> Msg(exception, <<>>)]
Sleep == [kind |-> "sleep", success |-> FALSE, message |-> NoMsg]

\* a job as the controller reports it; opresult is a list of entries, each
\* a list of strings
Job(status, has_opresult, opresult) ==
    [status |-> status, has_opresult |-> has_opresult, opresult |-> opresult]

\* the first element of the first entry is taken, not the second
JobFailedMsgFirst(job_id, js) ==
    IF js.has_opresult /\ Len(js.opresult) > 0
    THEN Msg("Job {0} failed: {1}", <<ToString(job_id), js.opresult[1][1]>>)
    ELSE Msg("Job {0} failed with status \"{1}\"", <<ToString(job_id), js.status>>)
\* the message for a job that ended in error or canceled
JobFailedMsg(job_id, js) ==
    IF js.has_opresult /\ Len(js.opresult) > 0
    THEN Msg("Job {0} failed: {1}", <<ToString(job_id), js.opresult[1][2]>>)
    ELSE Msg("Job {0} failed with status \"{1}\"", <<ToString(job_id), js.status>>)

TimeoutMsg(job_id, ts, job_timeout, time) ==
    Msg("Timeout waiting for job {0}, ts_start {1} timeout {2} time.time() {3}",
        <<ToString(job_id), ToString(ts), ToString(job_timeout), ToString(time)>>)

\* the deadline test made on a poll that reports a non-terminal status
TimedOut(ts, job_timeout, time) == ts + job_timeout < time

\* the deadline is tested on every answer, whatever the status
WaitStepDeadlineFirst(job_id, ts, job_timeout, time, code, js) ==
    IF code # HTTP_OK
    THEN Return(FALSE, Msg("Error waiting for job {0}, response code {1}",
                           <<ToString(job_id), ToString(code)>>))
    ELSE IF TimedOut(ts, job_timeout, time)
    THEN Return(FALSE, TimeoutMsg(job_id, ts, job_timeout, time))
    ELSE IF js.status \notin {"canceled", "error", "success"}
    THEN Sleep
    ELSE IF js.status # "success"
    THEN Return(FALSE, JobFailedMsg(job_id, js))
    ELSE Return(TRUE, Msg("Success", <<>>))

\* a poll that is not answered 200 is repeated after the sleep
WaitStepRetry(job_id, ts, job_timeout, time, code, js) ==
    IF code # HTTP_OK
    THEN Sleep
    ELSE IF js.status \notin {"canceled", "error", "success"}
    THEN IF TimedOut(ts, job_timeout, time)
         THEN Return(FALSE, TimeoutMsg(job_id, ts, job_timeout, time))
         ELSE Sleep
    ELSE IF js.status # "success"
    THEN Return(FALSE, JobFailedMsg(job_id, js))
    ELSE Return(TRUE, Msg("Success", <<>>))

\* One turn of the loop after the poll was answered with (code, js) and the
\* clock reads time: return, raise, or sleep and poll again.
WaitStep(job_id, ts, job_timeout, time, code, js) ==
    IF code # HTTP_OK
    THEN Return(FALSE, Msg("Error waiting for job {0}, response code {1}",
                           <<ToString(job_id), ToString(code)>>))
    ELSE IF js.status \notin {"canceled", "error", "success"}
    THEN IF TimedOut(ts, job_timeout, time)
         THEN Return(FALSE, TimeoutMsg(job_id, ts, job_timeout, time))
         ELSE Sleep
    ELSE IF js.status # "success"
    THEN IF js.has_opresult /\ Len(js.opresult) > 0 /\ Len(js.opresult[1]) < 2
         THEN Raise("IndexError")
         ELSE Return(FALSE, JobFailedMsg(job_id, js))
    ELSE Return(TRUE, Msg("Success", <<>>))

\* ------------------------------------------------------------------ inputs
GoodDisk == << <<"name", "root">>, <<"size", "10G">> >>
BadKeyDisk == << <<"size", "10G">>, <<"bogus", "1">> >>
ExtDisk == << <<"size", "10G">>, <<"provider", "ext">>, <<"bogus", "1">> >>
GoodNic == << <<"mode", "bridged">>, <<"bridge", "br0">> >>
BadModeNic == << <<"mode", "tunneled">> >>
NoModeNic == << <<"link", "br0">> >>
SizelessExtDisk == << <<"provider", "ext">>, <<"bogus", "1">> >>
SizelessBadKeyDisk == << <<"bogus", "1">>, <<"name", "root">> >>
GoodOsparams == << <<"key", Scalar("value")>> >>
ListOsparams == << <<"key", Complex("list")>> >>

\* the disks, nics and osparams a run is given
InstanceSpecs ==
    { [disks |-> <<GoodDisk>>, nics |-> <<GoodNic>>, osparams |-> GoodOsparams],
      [disks |-> <<>>, nics |-> <<>>, osparams |-> <<>>],
      [disks |-> <<GoodDisk, BadKeyDisk>>, nics |-> <<GoodNic>>, osparams |-> GoodOsparams],
      [disks |-> <<ExtDisk>>, nics |-> <<GoodNic, BadModeNic>>, osparams |-> <<>>],
      [disks |-> <<GoodDisk>>, nics |-> <<>>, osparams |-> ListOsparams],
      [disks |-> <<ExtDisk>>, nics |-> <<GoodNic, NoModeNic>>, osparams |-> <<>>],
      [disks |-> <<GoodDisk, SizelessExtDisk>>, nics |-> <<GoodNic>>, osparams |-> <<>>],
      [disks |-> <<SizelessBadKeyDisk>>, nics |-> <<GoodNic>>, osparams |-> <<>>] }

\* answers of the controller to an instance lookup
Response(code, body) == [code |-> code, body |-> body]
LookupResponses ==
    {Response(HTTP_OK, st) : st \in InstanceStatuses}
    \cup {Response(HTTP_NOT_FOUND, b) : b \in {"nostatus", "nojson"}}
    \cup {Response(c, b) : c \in FailureCodes, b \in {"nostatus", "nojson"}}
NoResponse == Response(0, "")

\* opresult of a job that did not succeed: empty, or one entry per opcode;
\* the controller encodes a failed opcode as the pair of the error class and
\* its arguments
OpResults ==
    { <<>>, << <<"NodeUnreachable", "node down">> >> }
\* answers of the controller to a job poll
JobResponses ==
    {Job(st, FALSE, <<>>) : st \in NonTerminalJobStatuses \cup TerminalJobStatuses}
    \cup {Job(st, TRUE, o) : st \in {"canceled", "error"}, o \in OpResults}
NoJob == Job("", FALSE, <<>>)
NoReturn == [kind |-> "none", success |-> FALSE, message |-> NoMsg]

\* ------------------------------------------------------------------- state
VARIABLES
    params,     \* module.params
    pc,         \* where the run is: "lookup", "decide", "submit", "wait",
                \* "report"; ended: "done" (exit_json), "failed" (fail_json),
                \* "crashed" (uncaught exception)
    requests,   \* every request sent to the controller, in order
    response,   \* the answer to the first lookup
    last,       \* the answer to the latest lookup (response, once reassigned)
    branch,     \* the branch of run_module taken
    payload,    \* the body of the create request
    changed,    \* run_module's changed
    message,    \* run_module's message
    error,      \* what fail_json was given, or the exception raised
    j_id,       \* the id of the submitted job
    now,        \* time.time()
    ts_start,   \* wait_for_job's ts_start
    polls,      \* job polls answered so far
    js,         \* the job as last polled
    pollDur,    \* how long the last poll took
    instant,    \* no poll so far took any time
    onlyRunning,\* every poll before the last reported status running
    waitret,    \* what wait_for_job returned
    result,     \* what exit_json was given
    controller, \* the controller's side, where a specification follows it:
                \* the instance as the controller has it, whether the
                \* submitted job has been carried out, and how many jobs
                \* have been
    run         \* which run of the module this is

vars == <<params, pc, requests, response, last, branch, payload, changed, message,
          error, j_id, now, ts_start, polls, js, pollDur, instant,
          onlyRunning, waitret, result, controller, run>>

waitvars == <<j_id, ts_start, polls, js, pollDur, instant, onlyRunning, waitret>>

\* what no statement of the module assigns: the module reaches the
\* controller only through query()
envvars == <<controller, run>>

\* the controller's side left open: any answer to any request
AnyController == [instance |-> "any", executed |-> FALSE, jobs |-> 0]

NoResult == [changed |-> Bool(FALSE), message |-> NoMsg, instance |-> "", set |-> FALSE]

Init ==
    /\ params \in {[state |-> s, wait |-> w, job_timeout |-> t, name |-> Name,
                    disks |-> i.disks, nics |-> i.nics, osparams |-> i.osparams] :
                      s \in state_choices, w \in BOOLEAN, t \in JobTimeouts,
                      i \in InstanceSpecs}
    /\ pc = "lookup"
    /\ requests = <<>>
    /\ response = NoResponse
    /\ last = NoResponse
    /\ branch = "none"
    /\ payload = NoPayload
    /\ changed = Bool(FALSE)
    /\ message = NoMsg
    /\ error = NoMsg
    /\ j_id = 0
    /\ now = 0
    /\ ts_start = 0
    /\ polls = 0
    /\ js = NoJob
    /\ pollDur = 0
    /\ instant = TRUE
    /\ onlyRunning = TRUE
    /\ waitret = NoReturn
    /\ result = NoResult
    /\ controller = AnyController
    /\ run = 1

\* exceptions a query can raise instead of answering
QueryExceptions == {"HTTPError", "ConnectionError"}

\* an uncaught exception ends the run
Crash(exception) ==
    /\ pc' = "crashed"
    /\ error' = Msg(exception, <<>>)

\* fail_json ends the run
fail_json(msg) ==
    /\ pc' = "failed"
    /\ error' = msg

\* ----------------------------------------------------------------- actions
\* run_module: the first lookup; only HTTPError is caught
Lookup ==
    /\ pc = "lookup"
    /\ requests' = Append(requests, LookupRequest)
    /\ \/ \E r \in LookupResponses :
            /\ response' = r
            /\ last' = r
            /\ pc' = "decide"
            /\ error' = error
       \/ \E e \in QueryExceptions :
            /\ UNCHANGED <<response, last>>
            /\ IF e = "HTTPError" THEN fail_json(Msg("{0}", <<e>>)) ELSE Crash(e)
    /\ UNCHANGED <<params, branch, payload, changed, message, now, result>>
    /\ UNCHANGED waitvars
    /\ UNCHANGED envvars

\* run_module: the if/elif chain up to the call it makes; for the create
\* branch, instance_create up to its POST
Reconcile ==
    /\ pc = "decide"
    /\ LET b == Decision(params.state, response.code, response.body)
           c == CreatePayload(params)
       IN  /\ branch' = b
           /\ IF b = "create"
              THEN IF c.ok
                   THEN /\ pc' = "submit"
                        /\ payload' = c.data
                        /\ UNCHANGED <<error, message>>
                   ELSE /\ fail_json(c.msg)
                        /\ UNCHANGED <<payload, message>>
              ELSE IF BranchOp(b) # "none"
              THEN /\ pc' = "submit"
                   /\ UNCHANGED <<payload, error, message>>
              ELSE IF b = "not_present"
              THEN /\ fail_json(Msg("Instance {0} is not present, can't set to {1}",
                                    <<params.name, params.state>>))
                   /\ UNCHANGED <<payload, message>>
              ELSE IF b \in {"ValueError", "KeyError"}
              THEN /\ Crash(b)
                   /\ UNCHANGED <<payload, message>>
              ELSE /\ pc' = "report"
                   /\ message' = BranchMsg(b, response.body)
                   /\ UNCHANGED <<payload, error>>
    /\ UNCHANGED <<params, requests, response, last, changed, now, result>>
    /\ UNCHANGED waitvars
    /\ UNCHANGED envvars

\* a submission that is not answered 200 is sent again
SubmitNextRetry(code, wait) ==
    IF code # HTTP_OK THEN "submit"
    ELSE IF wait THEN "wait"
    ELSE "report"
\* the wait flag is not looked at
SubmitNextAlwaysWait(code, wait) ==
    IF code # HTTP_OK THEN "failed"
    ELSE "wait"
\* where instance_* goes once its request is answered with code
SubmitNext(code, wait) ==
    IF code # HTTP_OK THEN "failed"
    ELSE IF wait THEN "wait"
    ELSE "report"

\* instance_*: the request that submits the job, and the answer to it
Submit ==
    /\ pc = "submit"
    /\ requests' = Append(requests, OpRequest(BranchOp(branch)))
    /\ \E d \in 0..MaxPollDur :
        /\ now' = now + d
        /\ \/ \E e \in QueryExceptions :
                /\ Crash(e)
                /\ UNCHANGED <<j_id, ts_start, changed, message>>
           \/ \E code \in {HTTP_OK} \cup FailureCodes, id \in 1..MaxJobId :
                LET next == SubmitNext(code, params.wait)
                    sent == OpSentMsg(BranchOp(branch))
                IN  /\ pc' = next
                    /\ error' = IF next = "failed" THEN ApiFailedMsg(code) ELSE error
                    /\ j_id' = IF next = "failed" THEN j_id ELSE id
                    /\ ts_start' = IF next = "wait" THEN now' ELSE ts_start
                    /\ changed' = IF next = "report" THEN AssignChanged(branch, sent) ELSE changed
                    /\ message' = IF next = "report" THEN AssignMessage(branch, sent) ELSE message
    /\ UNCHANGED <<params, response, last, branch, payload, result>>
    /\ UNCHANGED <<polls, js, pollDur, instant, onlyRunning, waitret>>
    /\ UNCHANGED envvars

\* a failed wait is not looked at
WaitNextUnchecked(success) == "report"
\* where instance_* goes once wait_for_job returned (success, message)
WaitNext(success) == IF success THEN "report" ELSE "failed"

\* wait_for_job: one turn of the loop (poll, evaluate, sleep), and when it
\* returns, the rest of the instance_* function that called it
Poll ==
    /\ pc = "wait"
    /\ requests' = Append(requests, JobRequest(j_id))
    /\ \E d \in 0..MaxPollDur :
        \/ \E e \in QueryExceptions :
            /\ Crash(e)
            /\ now' = now + d
            /\ UNCHANGED <<changed, message, polls, js, pollDur, instant, onlyRunning, waitret>>
        \/ \E code \in {HTTP_OK} \cup FailureCodes, job \in JobResponses :
            LET time == now + d
                w == WaitStep(j_id, ts_start, params.job_timeout, time, code, job)
                op == BranchOp(branch)
            IN  /\ code # HTTP_OK => job = Job("error", FALSE, <<>>)
                /\ polls' = polls + 1
                /\ js' = IF code = HTTP_OK THEN job ELSE NoJob
                /\ pollDur' = d
                /\ instant' = (instant /\ d = 0)
                /\ onlyRunning' = (onlyRunning /\ (polls = 0 \/ js.status = "running"))
                /\ IF w.kind = "sleep"
                   THEN /\ now' = time + SleepInterval
                        /\ pc' = "wait"
                        /\ UNCHANGED <<changed, message, error, waitret>>
                   ELSE IF w.kind = "raise"
                   THEN /\ now' = time
                        /\ Crash(w.message.fmt)
                        /\ UNCHANGED <<changed, message, waitret>>
                   ELSE /\ now' = time
                        /\ waitret' = w
                        /\ IF WaitNext(w.success) = "report"
                           THEN /\ pc' = "report"
                                /\ changed' = AssignChanged(branch, OpCompleteMsg(op))
                                /\ message' = AssignMessage(branch, OpCompleteMsg(op))
                                /\ error' = error
                           ELSE /\ fail_json(OpWaitFailedMsg(op, w.message))
                                /\ UNCHANGED <<changed, message>>
    /\ UNCHANGED <<params, response, last, branch, payload, j_id, ts_start, result>>
    /\ UNCHANGED envvars

\* the instance of the first lookup is reported
ReportedInstanceStale(first, latest) == first.body
\* the instance handed to exit_json, given the answers to the first and to
\* the latest lookup
ReportedInstance(first, latest) == latest.body

\* run_module: the lookup made for the report, and exit_json
Report ==
    /\ pc = "report"
    /\ requests' = Append(requests, LookupRequest)
    /\ \/ \E e \in QueryExceptions :
            /\ Crash(e)
            /\ UNCHANGED <<result, last>>
       \/ \E r \in LookupResponses :
            /\ last' = r
            /\ IF r.body = "nojson"
               THEN /\ Crash("ValueError")
                    /\ result' = result
               ELSE /\ pc' = "done"
                    /\ error' = error
                    /\ result' = [changed |-> changed, message |-> message,
                                  instance |-> ReportedInstance(response, r),
                                  set |-> TRUE]
    /\ UNCHANGED <<params, response, branch, payload, changed, message, now>>
    /\ UNCHANGED waitvars
    /\ UNCHANGED envvars

Next == Lookup \/ Reconcile \/ Submit \/ Poll \/ Report

Spec == Init /\ [][Next]_vars

\* A call of wait_for_job on its own: the run as Lookup, Reconcile and Submit
\* leave it when the submission is answered 200 and wait is set, for the
\* first of the instance specifications.
WaitInit ==
    /\ params \in {[state |-> s, wait |-> TRUE, job_timeout |-> t, name |-> Name,
                    disks |-> <<GoodDisk>>, nics |-> <<GoodNic>>,
                    osparams |-> GoodOsparams] :
                      s \in state_choices, t \in JobTimeouts}
    /\ pc = "wait"
    /\ response \in LookupResponses
    /\ last = response
    /\ branch = Decision(params.state, response.code, response.body)
    /\ BranchOp(branch) # "none"
    /\ requests = <<LookupRequest, OpRequest(BranchOp(branch))>>
    /\ payload = IF branch = "create" THEN CreatePayload(params).data ELSE NoPayload
    /\ changed = Bool(FALSE)
    /\ message = NoMsg
    /\ error = NoMsg
    /\ j_id \in 1..MaxJobId
    /\ now \in 0..MaxPollDur
    /\ ts_start = now
    /\ polls = 0
    /\ js = NoJob
    /\ pollDur = 0
    /\ instant = TRUE
    /\ onlyRunning = TRUE
    /\ waitret = NoReturn
    /\ result = NoResult
    /\ controller = AnyController
    /\ run = 1

\* The call is one thread of control that nothing suspends: while the loop
\* can take a turn, it takes one.
WaitSpec == WaitInit /\ [][Poll]_vars /\ WF_vars(Poll)

\* ------------------------------------------- two runs against one controller
\* The module is run, and when the run ended with exit_json it is run once
\* more with the same parameters.  The controller keeps one instance (absent,
\* or present with a status); its answer to a lookup tells what it keeps, a
\* job it reports as success has been carried out, and nothing but a job
\* changes the instance.

\* what the controller can keep under params['name']
Absent == "absent"
ControllerInstances == {Absent} \cup InstanceStatuses

\* the answers to GET /instances/<name> when the controller keeps inst
Answers(inst) ==
    IF inst = Absent
    THEN {Response(HTTP_NOT_FOUND, b) : b \in {"nostatus", "nojson"}}
    ELSE {Response(HTTP_OK, inst)}

\* what the controller can keep once the job submitted by op is carried out
Effect(op, inst) ==
    CASE op = "instance_create"  -> InstanceStatuses
      [] op = "instance_start"   -> {"running"}
      [] op = "instance_stop"    -> {"ADMIN_down"}
      [] op = "instance_restart" -> {"running"}
      [] op = "instance_destroy" -> {Absent}
      [] OTHER                   -> {inst}

\* wait is set; the instance specification is the first one, which
\* instance_create accepts
RerunInit ==
    /\ params \in {[state |-> s, wait |-> TRUE, job_timeout |-> t, name |-> Name,
                    disks |-> <<GoodDisk>>, nics |-> <<GoodNic>>,
                    osparams |-> GoodOsparams] :
                      s \in state_choices, t \in JobTimeouts}
    /\ pc = "lookup"
    /\ requests = <<>>
    /\ response = NoResponse
    /\ last = NoResponse
    /\ branch = "none"
    /\ payload = NoPayload
    /\ changed = Bool(FALSE)
    /\ message = NoMsg
    /\ error = NoMsg
    /\ j_id = 0
    /\ now = 0
    /\ ts_start = 0
    /\ polls = 0
    /\ js = NoJob
    /\ pollDur = 0
    /\ instant = TRUE
    /\ onlyRunning = TRUE
    /\ waitret = NoReturn
    /\ result = NoResult
    /\ controller \in {[instance |-> inst, executed |-> FALSE, jobs |-> 0] :
                          inst \in ControllerInstances}
    /\ run = 1

\* the first lookup, answered from what the controller keeps
RerunLookup ==
    /\ Lookup
    /\ pc' = "decide" => response' \in Answers(controller.instance)

\* the controller carries out the job it was given
Execute ==
    /\ j_id # 0
    /\ ~controller.executed
    /\ \E inst \in Effect(BranchOp(branch), controller.instance) :
            controller' = [instance |-> inst, executed |-> TRUE,
                           jobs |-> controller.jobs + 1]
    /\ UNCHANGED <<params, pc, requests, response, last, branch, payload, changed,
                   message, error, now, result, run>>
    /\ UNCHANGED waitvars

\* a turn of wait_for_job's loop; the job is reported as success exactly
\* when the controller has carried it out
RerunPoll ==
    /\ Poll
    /\ polls' # polls /\ js' # NoJob => (js'.status = "success" <=> controller.executed)

\* the lookup for the report, answered from what the controller keeps
RerunReport ==
    /\ Report
    /\ \/ pc' = "crashed" /\ error'.fmt \in QueryExceptions
       \/ last' \in Answers(controller.instance)

\* the module is invoked again with the same parameters once the first run
\* ended with exit_json
NextRun ==
    /\ run = 1
    /\ pc = "done"
    /\ run' = 2
    /\ pc' = "lookup"
    /\ requests' = <<>>
    /\ response' = NoResponse
    /\ last' = NoResponse
    /\ branch' = "none"
    /\ payload' = NoPayload
    /\ changed' = Bool(FALSE)
    /\ message' = NoMsg
    /\ error' = NoMsg
    /\ j_id' = 0
    /\ now' = 0
    /\ ts_start' = 0
    /\ polls' = 0
    /\ js' = NoJob
    /\ pollDur' = 0
    /\ instant' = TRUE
    /\ onlyRunning' = TRUE
    /\ waitret' = NoReturn
    /\ result' = NoResult
    /\ controller' = [controller EXCEPT !.executed = FALSE]
    /\ params' = params

RerunNext ==
    RerunLookup \/ Reconcile \/ Submit \/ Execute \/ RerunPoll \/ RerunReport \/ NextRun

RerunSpec == RerunInit /\ [][RerunNext]_vars

\* ------------------------------------------------------------- observables
\* the job-submitting requests sent so far (create, startup, shutdown,
\* reboot, delete): every request that is not a GET
JobSubmissions == {i \in DOMAIN requests : requests[i].method # "GET"}
NumSubmitted == Cardinality(JobSubmissions)
\* the first lookup was answered
Answered == response # NoResponse
\* the first lookup was answered and run_module has taken its branch
Decided == Answered /\ pc # "decide"
\* what the first lookup observed
Observed == IF response.code = HTTP_NOT_FOUND THEN "NotFound" ELSE response.body
PreconditionFmt == "Instance {0} is not present, can't set to {1}"
StructuralFmts == {"No \"size\" given for disk #{0}",
                   "Invalid disk parameter for disk #{0}: {1} is not a valid key",
                   "Invalid nic parameter for nic #{0}: {1} is not a valid key",
                   "Invalid mode {1} for nic {0}",
                   "Got complex type for osparams key %s"}
TimeoutFmt == "Timeout waiting for job {0}, ts_start {1} timeout {2} time.time() {3}"

\* the run did what action a stands for: "error" is the precondition error,
\* "no-op" is no submission at all, the others name the job submitted
Took(a) ==
    CASE a = "error" -> /\ pc = "failed"
                        /\ error.fmt = PreconditionFmt
                        /\ NumSubmitted = 0
      [] a = "no-op" -> /\ pc \in {"report", "done", "crashed"}
                        /\ NumSubmitted = 0
      [] OTHER       -> /\ \A i \in JobSubmissions : requests[i] = OpRequest(a)
                        /\ \/ NumSubmitted = 1
                           \/ pc = "submit" /\ BranchOp(branch) = a
                           \/ a = "instance_create" /\ pc = "failed"
                                /\ error.fmt \in StructuralFmts

\* the decision table of section 4.1, row by row
SpecTable(state, observed) ==
    CASE observed = "NotFound" ->
            (CASE state = "present" -> "instance_create"
               [] state = "absent"  -> "no-op"
               [] OTHER             -> "error")
      [] observed = "running" ->
            (CASE state = "present"   -> "no-op"
               [] state = "absent"    -> "instance_destroy"
               [] state = "started"   -> "no-op"
               [] state = "stopped"   -> "instance_stop"
               [] state = "restarted" -> "instance_restart")
      [] observed \in {"ADMIN_down", "ERROR_down"} ->
            (CASE state = "present"   -> "no-op"
               [] state = "absent"    -> "instance_destroy"
               [] state = "started"   -> "instance_start"
               [] state = "stopped"   -> "no-op"
               [] state = "restarted" -> "instance_start")
      [] OTHER ->
            (CASE state = "present"   -> "no-op"
               [] state = "absent"    -> "instance_destroy"
               [] state = "started"   -> "instance_start"
               [] state = "stopped"   -> "instance_stop"
               [] state = "restarted" -> "instance_restart")

\* the same table with restarted on any non-running status resolving to start
AmendedTable(state, observed) ==
    IF state = "restarted" /\ observed \notin {"NotFound", "running"}
    THEN "instance_start"
    ELSE SpecTable(state, observed)

\* the cases of the table: not found, or found with one of the statuses
TableCase == Decided /\ Observed \in {"NotFound"} \cup InstanceStatuses
                     /\ response.code \in {HTTP_OK, HTTP_NOT_FOUND}

\* C1 (as stated): for every desired state and every observed state the run
\* takes exactly the action of the decision table of section 4.1, restart()
\* for restarted on a status other than running, ADMIN_down, ERROR_down.
C1_TableAsStated == TableCase => Took(SpecTable(params.state, Observed))

\* C1 (amended): the run takes exactly the action of the table, except that
\* restarted on a found instance of any status other than running issues
\* start(); only status running issues restart().
C1_TableAmended == TableCase => Took(AmendedTable(params.state, Observed))

C1_Witness ==
    /\ TableCase
    /\ params.state = "restarted"
    /\ Observed = "NODE_down"
    /\ NumSubmitted = 1
    /\ requests[2] = OpRequest("instance_start")

\* C2: with desired present on a found instance, and with desired stopped on
\* an instance that is ADMIN_down or ERROR_down, no job is ever submitted,
\* changed stays false, the run never fails and it reports changed=false.
C2_Case ==
    /\ Answered
    /\ response.code = HTTP_OK
    /\ \/ params.state = "present"
       \/ params.state = "stopped" /\ response.body \in {"ADMIN_down", "ERROR_down"}
C2_NoJobNoChange ==
    C2_Case => /\ NumSubmitted = 0
               /\ changed = Bool(FALSE)
               /\ pc \in {"decide", "report", "done", "crashed"}
               /\ pc = "done" => result.changed = Bool(FALSE)

C2_Witness ==
    /\ C2_Case
    /\ params.state = "stopped"
    /\ response.body = "ERROR_down"
    /\ pc = "done"

\* C3: when the first lookup reports not found and the desired state is
\* started, stopped or restarted, the run ends in the precondition error
\* naming the instance and the state, having sent nothing but the lookup.
C3_Case ==
    /\ Answered
    /\ response.code = HTTP_NOT_FOUND
    /\ params.state \in {"started", "stopped", "restarted"}
C3_PreconditionError ==
    C3_Case => /\ requests = <<LookupRequest>>
               /\ pc # "decide" =>
                    /\ pc = "failed"
                    /\ error = Msg(PreconditionFmt, <<Name, params.state>>)
                    /\ Contains(error, params.name) /\ Contains(error, params.state)

C3_Witness ==
    /\ C3_Case
    /\ params.state = "restarted"
    /\ pc = "failed"

\* C4: in every run at most one job-submitting request is sent.
C4_AtMostOneSubmission == NumSubmitted <= 1

C4_Witness ==
    /\ NumSubmitted = 1
    /\ polls >= 2
    /\ pc = "done"

\* C5 (as stated): when the first lookup is answered with a status that is
\* neither 200 nor 404, the run ends in an error and no job is submitted.
C5_LookupFailureIsError ==
    (Decided /\ response.code \notin {HTTP_OK, HTTP_NOT_FOUND})
        => /\ pc \in {"failed", "crashed"}
           /\ NumSubmitted = 0

\* the waiter returned the timeout failure
TimedOutReturn == waitret.kind = "return" /\ ~waitret.success
                    /\ waitret.message.fmt = TimeoutFmt
\* every poll so far was answered 200 with status running
AllRunning == polls > 0 /\ onlyRunning /\ js.status = "running"

\* C6 (as stated): with polls that take no time, the answers running,
\* running, success and timeout 10 make wait_for_job return (true, Success)
\* at its 3rd poll; answers that stay running and timeout 3 make it return
\* the timeout failure at its 2nd poll, before any 3rd poll.
C6_ScriptedWaits ==
    /\ (params.job_timeout = 10 /\ instant /\ polls = 3 /\ onlyRunning
            /\ js.status = "success")
         => waitret = Return(TRUE, Msg("Success", <<>>))
    /\ (params.job_timeout = 10 /\ instant /\ polls < 3 /\ AllRunning)
         => pc = "wait"
    /\ (params.job_timeout = 3 /\ instant /\ polls >= 2 /\ AllRunning)
         => polls = 2 /\ TimedOutReturn

\* C7 (as stated): when wait_for_job returns the timeout failure, the time
\* since it started is at most job_timeout plus the duration of the last poll.
C7_TimeoutWithinDeadline ==
    TimedOutReturn => now - ts_start <= params.job_timeout + pollDur

\* the last poll reported a job that ended without success
JobEndedBadly == polls > 0 /\ js.status \in {"error", "canceled"}
HasDetail == js.has_opresult /\ Len(js.opresult) > 0
GenericJobMsg == Msg("Job {0} failed with status \"{1}\"", <<ToString(j_id), js.status>>)
ReturnedFailure == waitret.kind = "return" /\ ~waitret.success

IsExt(disk) == \E i \in DOMAIN disk : disk[i] = <<"provider", "ext">>
StructuralError(p) ==
    \/ \E i \in DOMAIN p.disks :
          \/ "size" \notin Keys(p.disks[i])
          \/ ~IsExt(p.disks[i]) /\ ~(Keys(p.disks[i]) \subseteq DISK_PARAMETERS)
    \/ \E i \in DOMAIN p.nics :
          \/ ~(Keys(p.nics[i]) \subseteq NIC_PARAMETERS)
          \/ \E k \in DOMAIN p.nics[i] :
                p.nics[i][k][1] = "mode" /\ p.nics[i][k][2] \notin NIC_MODES
    \/ \E i \in DOMAIN p.osparams : p.osparams[i][2].kind # "scalar"
StructuralFailure == pc = "failed" /\ error.fmt \in StructuralFmts

\* C9 (as stated): a structural error in the disk, NIC or OS-parameter input
\* ends the run before any request is sent, whatever the desired state.
C9_RejectedBeforeAnyRequest ==
    (StructuralError(params) /\ pc # "lookup")
        => StructuralFailure /\ requests = <<>>

\* C9 (amended): the input is examined only by instance_create, that is when
\* desired is present and the first lookup reports not found; a structural
\* error then ends the run after that one lookup and before the create
\* request.  In every other case the input is not examined and the run
\* never ends in a structural error.
C9_RejectedBeforeCreate ==
    /\ (StructuralError(params) /\ Decided /\ params.state = "present"
            /\ response.code = HTTP_NOT_FOUND)
         => StructuralFailure /\ requests = <<LookupRequest>>
    /\ StructuralFailure
         => /\ StructuralError(params)
            /\ params.state = "present"
            /\ response.code = HTTP_NOT_FOUND
            /\ requests = <<LookupRequest>>

C9_Witness ==
    /\ StructuralError(params)
    /\ StructuralFailure
    /\ Len(requests) = 1

C10_Case == Answered /\ params.state = "absent" /\ response.code = HTTP_NOT_FOUND
C10_Result ==
    /\ result.changed = Bool(FALSE)
    /\ result.message = Msg("No instance found", <<>>)

\* C10 (as stated): desired absent with the first lookup reporting not found
\* ends with changed=false and message "No instance found", and no request
\* but the first lookup is sent.
C10_OnlyTheFirstLookup ==
    C10_Case => /\ requests = <<LookupRequest>>
                /\ pc = "done" => C10_Result

\* C10 (amended): such a run submits no job; it sends the first lookup and,
\* before reporting, one more instance lookup, and nothing else; when it
\* ends normally the result is changed=false, message "No instance found".
C10_TwoLookupsNoJob ==
    C10_Case => /\ NumSubmitted = 0
                /\ requests \in {<<LookupRequest>>, <<LookupRequest, LookupRequest>>}
                /\ pc \in {"decide", "report", "done", "crashed"}
                /\ pc = "done" => C10_Result /\ Len(requests) = 2

C10_Witness == C10_Case /\ pc = "done" /\ result.set

\* what a run with desired started reports after its startup job
StartedMsg == IF params.wait THEN OpCompleteMsg("instance_start")
                             ELSE OpSentMsg("instance_start")
C11_Case ==
    /\ Answered
    /\ params.state = "restarted"
    /\ response.code = HTTP_OK
    /\ response.body \in InstanceStatuses \ {"running"}

\* C11 (as stated): restarted on a found instance that is not running sends
\* exactly one startup request, polls only when wait is set, and reports the
\* (changed, message) a run with desired started reports.
C11_RestartedAsStarted ==
    C11_Case =>
        /\ \A i \in JobSubmissions : requests[i] = OpRequest("instance_start")
        /\ NumSubmitted <= 1
        /\ ~params.wait => polls = 0
        /\ pc = "done" =>
            /\ NumSubmitted = 1
            /\ result.changed = AssignChanged("start", StartedMsg)
            /\ result.message = AssignMessage("start", StartedMsg)

\* the positions in requests of job submissions and job polls
JobTraffic == {i \in DOMAIN requests : requests[i] # LookupRequest}

\* C12: a run ends normally only through the reporting step; that step
\* comes after the decision, after any submission and after the waiter has
\* returned success; it sends one more lookup, reports the instance of that
\* lookup and leaves changed and message as they were; the branch taken is
\* the one the first lookup's answer selects.
C12_ReportsFreshInstance ==
    /\ [](pc = "done" =>
            /\ result.set
            /\ Len(requests) >= 2
            /\ requests[Len(requests)] = LookupRequest
            /\ \A i \in JobTraffic : i < Len(requests)
            /\ result.instance = last.body
            /\ branch = Decision(params.state, response.code, response.body))
    /\ [][pc = "report" =>
            /\ changed' = changed /\ message' = message /\ branch' = branch
            /\ requests' = Append(requests, LookupRequest)
            /\ Decided
            /\ (params.wait /\ NumSubmitted > 0) => waitret = Return(TRUE, Msg("Success", <<>>))
            /\ pc' = "done" =>
                /\ result'.changed = changed
                /\ result'.message = message
                /\ result'.instance = last'.body]_vars
    /\ [][pc' = "done" => pc = "report"]_vars

C12_Witness ==
    /\ pc = "done"
    /\ polls >= 1
    /\ response.body = "ADMIN_down"
    /\ last.body = "running"
    /\ result.instance = "running"

\* C13: with wait set, when wait_for_job returns failure the run ends in
\* fail_json with the waiter's message, whatever the action; nothing is
\* reported through exit_json and nothing is sent after the failing poll.
C13_WaitFailureIsFatal ==
    (params.wait /\ ReturnedFailure) =>
        /\ pc = "failed"
        /\ ~result.set
        /\ error = OpWaitFailedMsg(BranchOp(branch), waitret.message)
        /\ NumSubmitted = 1
        /\ requests[Len(requests)] = JobRequest(j_id)
        /\ changed = Bool(FALSE)

C13_Witness ==
    /\ params.wait
    /\ TimedOutReturn
    /\ branch = "destroy"
    /\ pc = "failed"

\* the submission was answered 200 in a run that does not wait
C14_Case == ~params.wait /\ j_id # 0

\* C14: with wait off, a submission answered 200 makes the action return
\* changed true with its "sent" text at once; no job poll is ever sent or
\* answered and wait_for_job is never entered.
C14_FireAndForget ==
    C14_Case =>
        /\ polls = 0
        /\ js = NoJob
        /\ waitret = NoReturn
        /\ \A i \in DOMAIN requests : requests[i] # JobRequest(j_id)
        /\ pc \in {"report", "done", "crashed"}
        /\ changed.flag
        /\ OpSentMsg(BranchOp(branch)) \in {message, changed.text}

C14_Witness ==
    /\ C14_Case
    /\ branch = "create"
    /\ pc = "done"
    /\ result.changed = Bool(TRUE)

C15_Case ==
    /\ Answered
    /\ params.state = "stopped"
    /\ response = Response(HTTP_OK, "running")
    /\ params.wait
    /\ waitret = Return(TRUE, Msg("Success", <<>>))

\* C15: stopped on a running instance with wait set and a shutdown job that
\* reaches success ends with changed=true and message "Shutdown complete",
\* after exactly one submission, the shutdown request.
C15_ShutdownComplete ==
    C15_Case =>
        /\ changed = Bool(TRUE)
        /\ message = Msg("Shutdown complete", <<>>)
        /\ NumSubmitted = 1
        /\ requests[2] = query("PUT", <<"/instances/", Name, "/shutdown">>)
        /\ pc \in {"report", "done", "crashed"}
        /\ pc = "done" => /\ result.changed = Bool(TRUE)
                          /\ result.message = Msg("Shutdown complete", <<>>)

C15_Witness == C15_Case /\ pc = "done" /\ polls >= 2

\* the create path: desired present and the first lookup reports not found
CreateCase == Decided /\ params.state = "present" /\ response.code = HTTP_NOT_FOUND
\* what the spec asks of a NIC: a mode, a valid mode, only known keys
NicInvalid(nic) ==
    \/ "mode" \notin Keys(nic)
    \/ Get(nic, "mode") \notin NIC_MODES
    \/ ~(Keys(nic) \subseteq NIC_PARAMETERS)
InvalidNics(p) == {i \in DOMAIN p.nics : NicInvalid(p.nics[i])}
\* no disk stops instance_create
DisksPass(p) ==
    \A i \in DOMAIN p.disks :
        /\ "size" \in Keys(p.disks[i])
        /\ IsExt(p.disks[i]) \/ Keys(p.disks[i]) \subseteq DISK_PARAMETERS
\* no nic stops instance_create
NicsPass(p) ==
    \A i \in DOMAIN p.nics :
        /\ Keys(p.nics[i]) \subseteq NIC_PARAMETERS
        /\ "mode" \in Keys(p.nics[i]) => Get(p.nics[i], "mode") \in NIC_MODES
\* no osparams value stops instance_create
OsparamsPass(p) == \A i \in DOMAIN p.osparams : p.osparams[i][2].kind = "scalar"
NicFmts == {"Invalid nic parameter for nic #{0}: {1} is not a valid key",
            "Invalid mode {1} for nic {0}"}

\* C16 (as stated): on the create path a NIC with no mode, with a mode
\* outside routed, bridged, openvswitch, or with an unknown key is rejected
\* with a structural error naming the NIC index, and no create request is
\* sent.
C16_NicsValidated ==
    (CreateCase /\ DisksPass(params) /\ InvalidNics(params) # {}) =>
        /\ StructuralFailure
        /\ error.fmt \in NicFmts
        /\ Contains(error, ToString(First(InvalidNics(params)) - 1))
        /\ requests = <<LookupRequest>>

\* the disks the claim rejects: not ext, with a key outside DISK_PARAMETERS
UnknownKeyDisks(p) ==
    {i \in DOMAIN p.disks :
        ~IsExt(p.disks[i]) /\ ~(Keys(p.disks[i]) \subseteq DISK_PARAMETERS)}
\* the disks without a size
SizelessDisks(p) == {i \in DOMAIN p.disks : "size" \notin Keys(p.disks[i])}
\* the first key of a disk that is outside DISK_PARAMETERS
FirstUnknownKey(disk) ==
    disk[First({k \in DOMAIN disk : disk[k][1] \notin DISK_PARAMETERS})][1]
\* the create request is built: every disk is in its body as given
DisksForwarded ==
    /\ ~StructuralFailure
    /\ payload.disks = params.disks
    /\ \A i \in DOMAIN params.disks :
          IsExt(params.disks[i]) => Keys(payload.disks[i]) = Keys(params.disks[i])

\* C17 (as stated): on the create path a non-ext disk with a key outside
\* size, mode, name, provider is rejected with an error naming the disk's
\* index and the key; an ext disk has every key forwarded unmodified.
C17_DisksAsStated ==
    /\ (CreateCase /\ UnknownKeyDisks(params) # {}) =>
            LET i == First(UnknownKeyDisks(params))
            IN  /\ StructuralFailure
                /\ Contains(error, ToString(i - 1))
                /\ Contains(error, FirstUnknownKey(params.disks[i]))
    /\ (CreateCase /\ UnknownKeyDisks(params) = {} /\ NicsPass(params)
            /\ OsparamsPass(params))
         => DisksForwarded

\* C17 (amended): a disk without size is rejected with an error naming its
\* index, ext or not; a disk with a size that is not ext and has a key
\* outside size, mode, name, provider is rejected with an error naming its
\* index and the first such key; an ext disk with a size has every key
\* forwarded unmodified.
C17_DisksAmended ==
    /\ (CreateCase /\ (UnknownKeyDisks(params) \cup SizelessDisks(params)) # {}) =>
            LET i == First(UnknownKeyDisks(params) \cup SizelessDisks(params))
            IN  /\ requests = <<LookupRequest>>
                /\ pc = "failed"
                /\ IF i \in SizelessDisks(params)
                   THEN error = Msg("No \"size\" given for disk #{0}", <<ToString(i - 1)>>)
                   ELSE error = Msg("Invalid disk parameter for disk #{0}: {1} is not a valid key",
                                    <<ToString(i - 1), FirstUnknownKey(params.disks[i])>>)
    /\ (CreateCase /\ UnknownKeyDisks(params) = {} /\ SizelessDisks(params) = {}
            /\ NicsPass(params) /\ OsparamsPass(params))
         => DisksForwarded

C17_Witness ==
    /\ CreateCase
    /\ params.disks = <<GoodDisk, BadKeyDisk>>
    /\ error.args = <<"1", "bogus">>
    /\ pc = "failed"

\* the job polls sent so far
PollRequests == {i \in DOMAIN requests : requests[i] = JobRequest(j_id)}

\* C18: every wait ends; a poll not answered 200 ends it in failure with the
\* response code, status success in (true, Success), status error or
\* canceled in failure, and any other status either in the timeout failure
\* or in a sleep of the fixed interval and one more poll; no poll follows
\* the one that decided.
C18_WaiterDecides ==
    /\ [](polls > 0 =>
            /\ js = NoJob =>
                  /\ ReturnedFailure
                  /\ waitret.message.fmt = "Error waiting for job {0}, response code {1}"
                  /\ \E c \in FailureCodes : Contains(waitret.message, ToString(c))
            /\ js.status = "success" => waitret = Return(TRUE, Msg("Success", <<>>))
            /\ js.status \in {"error", "canceled"} =>
                  ReturnedFailure /\ waitret.message.fmt # TimeoutFmt
            /\ js.status \in NonTerminalJobStatuses =>
                  \/ TimedOutReturn
                  \/ waitret = NoReturn /\ pc \in {"wait", "crashed"}
            /\ waitret.kind = "return" =>
                  /\ Cardinality(PollRequests) = polls
                  /\ pc # "wait")
    /\ [][(pc = "wait" /\ pc' = "wait") =>
            /\ polls' = polls + 1
            /\ now' = now + pollDur' + SleepInterval
            /\ requests' = Append(requests, JobRequest(j_id))]_vars
    /\ (pc = "wait") ~> (pc # "wait")

C18_Witness ==
    /\ TimedOutReturn
    /\ polls >= 3
    /\ pc = "failed"

\* C19 (as stated): when the run ends normally the reported changed is a
\* boolean, true exactly when the run submitted a job.
C19_ChangedIsBoolean ==
    pc = "done" =>
        /\ result.changed.kind = "bool"
        /\ result.changed.flag <=> NumSubmitted > 0

\* the last poll reported a terminal status after the deadline had passed
C20_Case ==
    /\ polls > 0
    /\ js.status \in TerminalJobStatuses
    /\ ts_start + params.job_timeout < now

\* C20: a terminal status polled after the deadline is treated as at any
\* other time: success gives (true, Success), error and canceled give the
\* job-failure message; the timeout failure is never returned for it.
C20_DeadlineOnlyWhenNonTerminal ==
    C20_Case =>
        /\ ~TimedOutReturn
        /\ IF js.status = "success"
           THEN /\ waitret = Return(TRUE, Msg("Success", <<>>))
                /\ pc \in {"report", "done", "crashed"}
           ELSE /\ ReturnedFailure
                /\ waitret.message =
                     (IF HasDetail
                      THEN Msg("Job {0} failed: {1}", <<ToString(j_id), js.opresult[1][2]>>)
                      ELSE GenericJobMsg)

C20_Witness ==
    /\ C20_Case
    /\ js.status = "success"
    /\ now - ts_start > params.job_timeout + MaxPollDur
    /\ pc = "done"

\* C21: against a controller on which a successful job takes effect and
\* nothing else changes the instance, a run with wait set and state present,
\* absent, started or stopped that ended with exit_json is followed by a run
\* with the same parameters that submits no job and reports changed false.
IdempotentStates == {"present", "absent", "started", "stopped"}
C21_Case == run = 2 /\ params.state \in IdempotentStates
C21_SecondRunIdle ==
    C21_Case =>
        /\ NumSubmitted = 0
        /\ j_id = 0
        /\ pc \notin {"submit", "wait"}
        /\ changed = Bool(FALSE)
        /\ pc = "done" => result.set /\ result.changed = Bool(FALSE)

\* the first run carried out a job and the second run ended with exit_json
C21_Witness ==
    /\ C21_Case
    /\ pc = "done"
    /\ result.set
    /\ params.state = "stopped"
    /\ controller.jobs = 1
    /\ controller.instance = "ADMIN_down"
    /\ branch = "already_stopped"

====
